---- MODULE Spec2Model ----
(***************************************************************************)
(* The databases plugin of Flipper (desktop/plugins/public/databases):     *)
(* the plugin state store, the subscriber that issues the remote fetches,  *)
(* and the handlers that change the state.                                 *)
(*                                                                         *)
(* A handler is an operator from a pair sn = [st, net] (the store's value  *)
(* and the bag of requests that have been sent and not yet answered) to    *)
(* the pair after it has run, so that a handler which changes the store    *)
(* several times is the composition of its changes, each followed by the   *)
(* subscriber's run.  An action is one handler call, or the arrival of one *)
(* response.                                                               *)
(***************************************************************************)
EXTENDS Integers, Sequences, FiniteSets, Bags, TLC

VARIABLES
  state,      \* the value of pluginState (DatabasesPluginState)
  net,        \* bag of the requests sent through client.send and not yet settled
  storage,    \* window.localStorage['plugin-database-favorites-sql-queries']
  connected,  \* client.onConnect has run
  now,        \* the clock that Date.now() and new Date() read
  submitted,  \* history variable: the texts passed to execute, in order
  frozen,     \* the object in state.query has been through immer's produce
  shared,     \* how many of the last entries of queryHistory are the object in state.query
  window,     \* how many requests the remote holds at once
  last        \* history variable: the handler that ran last and its input

vars == <<state, net, storage, connected, now, submitted, frozen, shared, window, last>>

----------------------------------------------------------------------------
(* Bounds of the model *)

MaxInFlight == 2           \* requests outstanding at once
MaxPageRowNumber == 50     \* nextPage is not taken beyond this pageRowNumber
MaxRowsCarried == 2        \* rows of a fetched page that the model carries
MaxHistory == 2            \* calls of execute in a behaviour
MaxClock == 2              \* ticks of the clock in a behaviour

(* Program constants *)

PAGE_SIZE == 50

----------------------------------------------------------------------------
(* Values *)

Null == [null |-> TRUE]     \* null, where the other values are objects
NoValue == "null"           \* null, where the other values are strings
Undefined == "undefined"    \* undefined, where the other values are strings
NoItem == <<"null">>        \* localStorage.getItem(...) === null
NaN == -1000                \* NaN, where the other values are row numbers
Num(n) == [number |-> n]    \* a number, where null is the other value

Max(a, b) == IF a >= b THEN a ELSE b
Min(a, b) == IF a <= b THEN a ELSE b
Range(s) == {s[i] : i \in DOMAIN s}
includes(s, v) == \E i \in DOMAIN s : s[i] = v
indexOf(s, v) == IF includes(s, v) THEN CHOOSE i \in DOMAIN s : s[i] = v /\ \A j \in 1..(i - 1) : s[j] /= v ELSE 0
splice(s, i) == [j \in 1..(Len(s) - 1) |-> IF j < i THEN s[j] ELSE s[j + 1]]

(* Truthiness of a table name or of an error (no empty strings occur). *)
Truthy(v) == v /= NoValue /\ v /= Undefined

----------------------------------------------------------------------------
(* What the remote side may answer *)

DB(id, name, tables) == [id |-> id, name |-> name, tables |-> tables]

DatabaseLists ==
  { <<DB(1, "a", <<"T1", "T2">>), DB(2, "b", <<"T3">>)>>,
    <<DB(2, "b", <<"T3">>), DB(1, "a", <<"T2">>)>>,
    <<DB(2, "b", <<"T3">>), DB(3, "c", <<"T1">>)>>,
    <<DB(1, "a", <<>>)>> }

Totals == {0, 30, 120}
Rows == {-5, 20, 70, 1000}
ViewModes == {"data", "structure", "SQL", "tableInfo", "queryHistory"}
SortOrders == {[key |-> "id", direction |-> "up"], [key |-> "id", direction |-> "down"]}
(* A query text: what the user typed, or the statement constructUpdateQuery builds *)
Sql(text) == [sql |-> text]
Texts == {Sql("A"), Sql("B")}
(* A row edit: column name and the string entered, in the order of Object.entries *)
Changes == { << <<"name", "Bob">> >>, << <<"id", "9">>, <<"name", "Bob">> >>, <<>> }
(* Rows highlighted in the table: the keys of the rows, String(index) *)
Highlights == { <<>>, <<0>>, <<1>>, <<1, 0>> }
(* getTableInfo: the definition text of the table asked for *)
Definition(table) == "CREATE " \o table
(* immer's autoFreeze, which the build sets: frozen objects, or none *)
AutoFreeze == BOOLEAN

(* Cells: the Value union of flipper, {type, value} *)
Val(type, value) == [type |-> type, value |-> value]

(* getTableData: the window of the table that starts at the requested row *)
PageData(req, total) ==
  LET count == Min(req.count, Max(total - req.start, 0))
  IN  [columns |-> <<"id", "name">>,
       values |-> [i \in 1..Min(count, MaxRowsCarried) |->
                    <<Val("integer", req.start + i), Val("string", "n")>>],
       start |-> req.start,
       count |-> count,
       total |-> total]

(* getTableStructure: one row per column of the table *)
StructureData ==
  [structureColumns |-> <<"column_name", "data_type", "nullable", "primary_key">>,
   structureValues |->
     << <<Val("string", "id"), Val("string", "INTEGER"), Val("boolean", FALSE), Val("boolean", TRUE)>>,
        <<Val("string", "name"), Val("string", "TEXT"), Val("boolean", TRUE), Val("boolean", FALSE)>> >>,
   indexesColumns |-> <<>>,
   indexesValues |-> <<>>]

Structures == {StructureData}

(* The structure with some of its columns left out, and with other primary keys *)
without(data, names) ==
  LET kept == SelectSeq([i \in DOMAIN data.structureColumns |-> i],
                        LAMBDA i : data.structureColumns[i] \notin names)
  IN  [data EXCEPT
         !.structureColumns = [k \in DOMAIN kept |-> data.structureColumns[kept[k]]],
         !.structureValues = [r \in DOMAIN data.structureValues |->
                                [k \in DOMAIN kept |-> data.structureValues[r][kept[k]]]]]

primaryKeys(data, names) ==
  [data EXCEPT !.structureValues =
     [r \in DOMAIN data.structureValues |->
        [data.structureValues[r] EXCEPT ![4] = Val("boolean", data.structureValues[r][1].value \in names)]]]

renamed(data, from, to) ==
  [data EXCEPT !.structureValues =
     [r \in DOMAIN data.structureValues |->
        [data.structureValues[r] EXCEPT ![1] =
           IF @.value = from THEN Val("string", to) ELSE @]]]

EditStructures ==
  { StructureData,
    without(StructureData, {"column_name"}),
    without(StructureData, {"data_type"}),
    without(StructureData, {"primary_key"}),
    without(StructureData, {"nullable"}),
    primaryKeys(StructureData, {"id", "name"}),
    renamed(StructureData, "id", "key") }

ExecuteResults ==
  { [type |-> "select", columns |-> <<"id">>, values |-> << <<Val("integer", 1)>> >>],
    [type |-> "insert", insertedId |-> 1],
    [type |-> "update_delete", affectedCount |-> 1] }

(* An error value that differs from the one held: every failure is a new object. *)
FreshError(st) == IF st.error = "E1" THEN "E2" ELSE "E1"

----------------------------------------------------------------------------
(* The subscriber: the requests it sends on a change from previousState to newState *)

(* A variant that always asks for ascending order *)
GetTableData_Ascending(newState) ==
  [method |-> "getTableData",
   count |-> PAGE_SIZE,
   databaseId |-> newState.selectedDatabase,
   order |-> IF newState.currentSort = Null THEN Undefined ELSE newState.currentSort.key,
   reverse |-> FALSE,
   table |-> newState.selectedDatabaseTable,
   start |-> newState.pageRowNumber]

GetTableData(newState) ==
  [method |-> "getTableData",
   count |-> PAGE_SIZE,
   databaseId |-> newState.selectedDatabase,
   order |-> IF newState.currentSort = Null THEN Undefined ELSE newState.currentSort.key,
   reverse |-> (IF newState.currentSort = Null THEN "up" ELSE newState.currentSort.direction) = "down",
   table |-> newState.selectedDatabaseTable,
   start |-> newState.pageRowNumber]

TableRequest(method, newState) ==
  [method |-> method, databaseId |-> newState.selectedDatabase, table |-> newState.selectedDatabaseTable]

(* A variant that asks for the table's definition whatever structure is loaded *)
subscribe_InfoAlways(newState, previousState) ==
  LET databaseId == newState.selectedDatabase
      table == newState.selectedDatabaseTable
      selected == databaseId /= 0 /\ Truthy(table)
  IN  (IF newState.viewMode = "data" /\ newState.currentPage = Null /\ selected
       THEN <<GetTableData(newState)>> ELSE <<>>)
      \o
      (IF newState.currentStructure = Null /\ selected
       THEN <<TableRequest("getTableStructure", newState)>> ELSE <<>>)
      \o
      (IF newState.viewMode = "tableInfo" /\ selected
       THEN <<TableRequest("getTableInfo", newState)>> ELSE <<>>)
      \o
      (IF ~previousState.outdatedDatabaseList /\ newState.outdatedDatabaseList
       THEN <<[method |-> "databaseList"]>> ELSE <<>>)

subscribe(newState, previousState) ==
  LET databaseId == newState.selectedDatabase
      table == newState.selectedDatabaseTable
      selected == databaseId /= 0 /\ Truthy(table)
  IN  (IF newState.viewMode = "data" /\ newState.currentPage = Null /\ selected
       THEN <<GetTableData(newState)>> ELSE <<>>)
      \o
      (IF newState.currentStructure = Null /\ selected
       THEN <<TableRequest("getTableStructure", newState)>> ELSE <<>>)
      \o
      (IF newState.viewMode = "tableInfo" /\ newState.currentStructure = Null /\ selected
       THEN <<TableRequest("getTableInfo", newState)>> ELSE <<>>)
      \o
      (IF ~previousState.outdatedDatabaseList /\ newState.outdatedDatabaseList
       THEN <<[method |-> "databaseList"]>> ELSE <<>>)

----------------------------------------------------------------------------
(* The store: createState's set and update.  set takes a new object and notifies the
   subscriber.  update passes the state through immer's produce: the subscriber is
   notified where the recipe changed a field, and what produce returns is frozen
   where the build's immer freezes (autoFreeze), the object in query with it. *)

send(n, requests) == n (+) SetToBag(Range(requests))

set(sn, newState) ==
  [sn EXCEPT !.st = newState, !.net = send(sn.net, subscribe(newState, sn.st))]

update(sn, newState) ==
  LET r == IF newState = sn.st THEN sn ELSE set(sn, newState)
  IN  [r EXCEPT !.frozen = r.st.query /= Null]

(* An object assigned in a recipe is a new object: produce's result differs from the
   state even where the fields are equal, and the subscriber is notified. *)
assign(sn, newState) ==
  [set(sn, newState) EXCEPT !.frozen = newState.query /= Null]

----------------------------------------------------------------------------
(* The handlers of plugin() *)

InitialState ==
  [selectedDatabase |-> 0,
   selectedDatabaseTable |-> NoValue,
   pageRowNumber |-> 0,
   databases |-> <<>>,
   outdatedDatabaseList |-> TRUE,
   viewMode |-> "data",
   error |-> NoValue,
   currentPage |-> Null,
   currentStructure |-> Null,
   currentSort |-> Null,
   query |-> Null,
   queryResult |-> Null,
   favorites |-> <<>>,
   executionTime |-> 0,
   tableInfo |-> "",
   queryHistory |-> <<>>]

(* Array.prototype.sort by id (stable): each entry goes before the later entries with id >= its own *)
RECURSIVE sortById(_)
sortById(s) ==
  IF Len(s) <= 1 THEN s
  ELSE LET rest == sortById(Tail(s))
           before == SelectSeq(rest, LAMBDA d : d.id < Head(s).id)
           after == SelectSeq(rest, LAMBDA d : d.id >= Head(s).id)
       IN  before \o <<Head(s)>> \o after

(* databases[i - 1] of the code is databases[i] here; it is undefined outside the array *)
Defined(s, i) == i \in DOMAIN s
firstOr(s, dflt) == IF Len(s) > 0 THEN s[1] ELSE dflt

(* databases[selectedDatabase - 1] is undefined, and the read of its .tables a TypeError *)
updateDatabasesThrows(st, updates) ==
  LET databases == sortById(updates)
      selectedDatabase ==
        IF st.selectedDatabase /= 0 THEN st.selectedDatabase
        ELSE IF Len(databases) > 0 THEN databases[1].id ELSE 0
  IN  ~Defined(databases, selectedDatabase)

updateDatabases(sn, updates) ==
  LET st == sn.st
      databases == sortById(updates)
      selectedDatabase ==
        IF st.selectedDatabase /= 0 THEN st.selectedDatabase
        ELSE IF Len(databases) > 0 THEN databases[1].id ELSE 0
  IN  IF updateDatabasesThrows(st, updates)
      THEN sn   \* nothing is set
      ELSE
        LET tables == databases[selectedDatabase].tables
            selectedTable ==
              IF Truthy(st.selectedDatabaseTable) /\ includes(tables, st.selectedDatabaseTable)
              THEN st.selectedDatabaseTable
              ELSE firstOr(tables, Undefined)
            sameTableSelected ==
              selectedDatabase = st.selectedDatabase /\ selectedTable = st.selectedDatabaseTable
        IN  set(sn, [st EXCEPT
              !.databases = databases,
              !.outdatedDatabaseList = FALSE,
              !.selectedDatabase = selectedDatabase,
              !.selectedDatabaseTable = selectedTable,
              !.pageRowNumber = 0,
              !.currentPage = IF sameTableSelected THEN st.currentPage ELSE Null,
              !.currentStructure = Null,
              !.currentSort = IF sameTableSelected THEN st.currentSort ELSE Null])

updateSelectedDatabase(sn, database) ==
  LET st == sn.st
  IN  IF ~Defined(st.databases, database)
      THEN sn   \* TypeError: the read of .tables of undefined; nothing is set
      ELSE set(sn, [st EXCEPT
             !.selectedDatabase = database,
             !.selectedDatabaseTable = firstOr(st.databases[database].tables, NoValue),
             !.pageRowNumber = 0,
             !.currentPage = Null,
             !.currentStructure = Null,
             !.currentSort = Null])

(* A variant that keeps the structure of the table left behind *)
updateSelectedDatabaseTable_KeepsStructure(sn, table) ==
  set(sn, [sn.st EXCEPT
    !.selectedDatabaseTable = table,
    !.pageRowNumber = 0,
    !.currentPage = Null,
    !.currentSort = Null])

updateSelectedDatabaseTable(sn, table) ==
  set(sn, [sn.st EXCEPT
    !.selectedDatabaseTable = table,
    !.pageRowNumber = 0,
    !.currentPage = Null,
    !.currentStructure = Null,
    !.currentSort = Null])

(* A variant that drops the page with the mode *)
updateViewMode_DropsPage(sn, viewMode) ==
  update(sn, [sn.st EXCEPT !.viewMode = viewMode, !.error = NoValue, !.currentPage = Null])

updateViewMode(sn, viewMode) ==
  update(sn, [sn.st EXCEPT !.viewMode = viewMode, !.error = NoValue])

updatePage(sn, page) ==
  assign(sn, [sn.st EXCEPT !.currentPage = page])

updateStructure(sn, structure) ==
  assign(sn, [sn.st EXCEPT !.currentStructure = structure])

updateTableInfo(sn, tableInfo) ==
  update(sn, [sn.st EXCEPT !.tableInfo = tableInfo])

setError(sn, e) ==
  assign(sn, [sn.st EXCEPT !.error = e])

nextPage(sn) ==
  update(sn, [sn.st EXCEPT !.pageRowNumber = @ + PAGE_SIZE, !.currentPage = Null])

(* A variant without Math.max *)
previousPage_Unclamped(sn) ==
  update(sn, [sn.st EXCEPT !.pageRowNumber = @ - PAGE_SIZE, !.currentPage = Null])

previousPage(sn) ==
  update(sn, [sn.st EXCEPT !.pageRowNumber = Max(@ - PAGE_SIZE, 0), !.currentPage = Null])

(* A variant without Math.max in the branch of a row beyond the last page *)
goToRow_Unbounded(sn, row) ==
  LET st == sn.st
  IN  IF st.currentPage = Null THEN sn
      ELSE LET destinationRow ==
                 IF row < 0 THEN 0
                 ELSE IF row >= st.currentPage.total - PAGE_SIZE
                      THEN st.currentPage.total - PAGE_SIZE
                      ELSE row
           IN  update(sn, [st EXCEPT !.pageRowNumber = destinationRow, !.currentPage = Null])

goToRow(sn, row) ==
  LET st == sn.st
  IN  IF st.currentPage = Null THEN sn
      ELSE LET destinationRow ==
                 IF row < 0 THEN 0
                 ELSE IF row >= st.currentPage.total - PAGE_SIZE
                      THEN Max(st.currentPage.total - PAGE_SIZE, 0)
                      ELSE row
           IN  update(sn, [st EXCEPT !.pageRowNumber = destinationRow, !.currentPage = Null])

refresh(sn) ==
  update(sn, [sn.st EXCEPT !.outdatedDatabaseList = TRUE, !.currentPage = Null])

sortByChanged(sn, sortOrder) ==
  set(sn, [sn.st EXCEPT !.currentSort = sortOrder, !.pageRowNumber = 0, !.currentPage = Null])

updateQuery(sn, value) ==
  [set(sn, [sn.st EXCEPT !.query = [value |-> value, time |-> now]]) EXCEPT
     !.frozen = FALSE, !.shared = 0]

(* JSON.stringify and JSON.parse of an array of strings *)
JSONstringify(list) == <<"json", list>>
JSONparse(text) == text[2]
getItem(stor) == IF stor = NoItem THEN JSONstringify(<<>>) ELSE stor

(* updateFavorites returns the new state to its caller, and no caller uses it: the
   store is changed only where the array it was given is the store's own array and is
   spliced in place (aliased).  The result is the pair and the item written. *)
updateFavorites(sn, favorites, aliased) ==
  LET st == sn.st
      present == st.query /= Null /\ includes(favorites, st.query.value)
      newFavorites ==
        IF st.query = Null THEN favorites
        ELSE IF present THEN splice(favorites, indexOf(favorites, st.query.value))
        ELSE Append(st.favorites, st.query.value)
  IN  [sn |-> IF present /\ aliased THEN [sn EXCEPT !.st.favorites = newFavorites] ELSE sn,
       item |-> JSONstringify(newFavorites)]

(* execute: the request, then the history, which takes the query buffer.  The time is
   assigned to the buffer in place: where the buffer is frozen the assignment is a
   TypeError (the module is strict), raised after the request was sent. *)
executeThrows(sn, autoFreeze) ==
  sn.st.query /= Null /\ sn.frozen /\ autoFreeze

execute(sn, query, autoFreeze) ==
  LET sent == [sn EXCEPT !.net = send(@, <<[method |-> "execute",
                                            databaseId |-> sn.st.selectedDatabase,
                                            value |-> query,
                                            timeBefore |-> now]>>)]
      st == sent.st
  IN  IF executeThrows(sn, autoFreeze) THEN sent
      ELSE IF st.query /= Null
      THEN LET newQuery == [st.query EXCEPT !.time = now]
               \* newQuery.time = ..., in place: the entries that are this object show it
               stamped == [sent EXCEPT
                             !.st.query = newQuery,
                             !.st.queryHistory = [i \in DOMAIN @ |->
                                IF i > Len(@) - sn.shared THEN newQuery ELSE @[i]],
                             !.shared = @ + 1]
           \* newHistory.concat(newQuery): the object itself, not a copy
           IN  update(stamped, [stamped.st EXCEPT !.queryHistory = Append(@, newQuery)])
      ELSE update(sent, sent.st)

displaySelect(sn, columns, values) ==
  assign(sn, [sn.st EXCEPT !.queryResult =
    [table |-> [columns |-> columns, rows |-> values, highlightedRows |-> <<>>],
     id |-> Null, count |-> Null]])

(* A variant that keeps the table of the result before *)
displayInsert_KeepsTable(sn, id) ==
  set(sn, [sn.st EXCEPT !.queryResult =
    [table |-> IF sn.st.queryResult = Null THEN Null ELSE sn.st.queryResult.table,
     id |-> Num(id), count |-> Null]])

displayInsert(sn, id) ==
  set(sn, [sn.st EXCEPT !.queryResult = [table |-> Null, id |-> Num(id), count |-> Null]])

displayUpdateDelete(sn, count) ==
  assign(sn, [sn.st EXCEPT !.queryResult = [table |-> Null, id |-> Null, count |-> Num(count)]])

executeThen(sn, req, data) ==
  LET cleared == update(sn, [sn.st EXCEPT !.error = NoValue, !.executionTime = now - req.timeBefore])
  IN  IF data.type = "select" THEN displaySelect(cleared, data.columns, data.values)
      ELSE IF data.type = "insert" THEN displayInsert(cleared, data.insertedId)
      ELSE IF data.type = "update_delete" THEN displayUpdateDelete(cleared, data.affectedCount)
      ELSE cleared

----------------------------------------------------------------------------
(* UpdateQueryUtil *)

(* parseInt(text, 10) of the strings the model enters *)
parseInt10(text) == IF text = "9" THEN 9 ELSE NaN

INT_DATA_TYPE == {"INTEGER", "LONG", "INT", "BIGINT"}

convertStringToValue(types, key, value) ==
  IF key \in DOMAIN types
  THEN IF (value = NoValue \/ value = "") /\ types[key].nullable THEN Val("null", NoValue)
       ELSE IF types[key].type \in INT_DATA_TYPE
            THEN Val("integer", IF parseInt10(value) = NaN THEN 0 ELSE parseInt10(value))
            ELSE Val("string", value)
  ELSE IF value = NoValue \/ value = "" THEN Val("null", NoValue) ELSE Val("string", value)

constructUpdateQuery(table, where, change) ==
  [update |-> table, set |-> change, where |-> where]

isUpdatable(columnMeta, columnData) ==
  /\ includes(columnMeta, "primary_key")
  /\ \E r \in DOMAIN columnData :
       LET primaryValue == columnData[r][indexOf(columnMeta, "primary_key")]
       IN  primaryValue.type = "boolean" /\ primaryValue.value = TRUE

----------------------------------------------------------------------------
(* Component's row callbacks *)

(* parseInt as Array.prototype.map calls it: the second argument is the index *)
parseInt(key, radix) ==
  IF radix = 0 THEN key
  ELSE IF radix >= 2 /\ key < radix THEN key
  ELSE NaN

onRowHighlighted(sn, highlightedRows) ==
  IF sn.st.currentPage = Null THEN sn
  ELSE assign(sn, [sn.st EXCEPT !.currentPage.highlightedRows =
                     [i \in DOMAIN highlightedRows |-> parseInt(highlightedRows[i], i - 1)]])

(* onRowHighlighted of the table of a query's result *)
onQueryRowHighlighted(sn, highlightedRows) ==
  LET table == sn.st.queryResult.table
  IN  set(sn, [sn.st EXCEPT !.queryResult =
        [table |-> [columns |-> table.columns,
                    rows |-> table.rows,
                    highlightedRows |-> [i \in DOMAIN highlightedRows |->
                                           parseInt(highlightedRows[i], i - 1)]],
         id |-> Null, count |-> Null]])

(* The pairs of s with the later pairs of the same key dropped: an object's entries *)
RECURSIVE entries(_)
entries(s) ==
  IF s = <<>> THEN <<>>
  ELSE LET init == entries(SubSeq(s, 1, Len(s) - 1))
           e == s[Len(s)]
       IN  IF \E i \in DOMAIN init : init[i][1] = e[1]
           THEN [i \in DOMAIN init |-> IF init[i][1] = e[1] THEN e ELSE init[i]]
           ELSE Append(init, e)

isFalse(v) == v.type = "boolean" /\ v.value = FALSE
isTrue(v) == v.type = "boolean" /\ v.value = TRUE
hasCell(row, idx) == idx \in DOMAIN row

(* currentPage?.highlightedRows[0] ?? -1 *)
highlightedRowIdx(currentPage) ==
  IF currentPage /= Null /\ Len(currentPage.highlightedRows) > 0
  THEN currentPage.highlightedRows[1] ELSE -1

(* The first test of onRowEdited: the handler returns *)
onRowEditedReturns(st, change) ==
  \/ st.viewMode /= "data"
  \/ st.selectedDatabaseTable = NoValue
  \/ st.currentStructure = Null
  \/ st.currentPage = Null
  \/ ~(highlightedRowIdx(st.currentPage) >= 0)
  \/ ~(highlightedRowIdx(st.currentPage) + 1 \in DOMAIN st.currentPage.rows)
  \/ Len(change) <= 0

(* indexOf of a metadata column in currentStructure.columns: 0 here is -1 there *)
primaryKeyIdx(currentStructure) == indexOf(currentStructure.columns, "primary_key")
nameKeyIdx(currentStructure) == indexOf(currentStructure.columns, "column_name")
typeIdx(currentStructure) == indexOf(currentStructure.columns, "data_type")
nullableIdx(currentStructure) == indexOf(currentStructure.columns, "nullable")

(* The second test: the error is logged and the handler returns *)
onRowEditedLogs(currentStructure) ==
  /\ primaryKeyIdx(currentStructure) = 0
  /\ nameKeyIdx(currentStructure) = 0
  /\ typeIdx(currentStructure) = 0

(* The reduce over the structure's rows reads .type of row[-1], which is undefined *)
primaryColumnIndexesThrows(currentStructure) ==
  \E r \in DOMAIN currentStructure.rows :
    LET row == currentStructure.rows[r]
    IN  \/ ~hasCell(row, primaryKeyIdx(currentStructure))
        \/ /\ isTrue(row[primaryKeyIdx(currentStructure)])
           /\ ~hasCell(row, nameKeyIdx(currentStructure))

primaryColumnIndexes(currentStructure, columns) ==
  LET primaryRows == SelectSeq(currentStructure.rows, LAMBDA r :
                       /\ isTrue(r[primaryKeyIdx(currentStructure)])
                       /\ r[nameKeyIdx(currentStructure)].type = "string")
      primaryNames == [i \in DOMAIN primaryRows |-> primaryRows[i][nameKeyIdx(currentStructure)].value]
  IN  SelectSeq([i \in DOMAIN primaryNames |-> indexOf(columns, primaryNames[i])],
                LAMBDA idx : idx > 0)

typesThrows(currentStructure) ==
  \E r \in DOMAIN currentStructure.rows :
    \/ ~hasCell(currentStructure.rows[r], nameKeyIdx(currentStructure))
    \/ ~hasCell(currentStructure.rows[r], typeIdx(currentStructure))

types(currentStructure) ==
  LET rows == currentStructure.rows
      typed == {r \in DOMAIN rows :
                  rows[r][nameKeyIdx(currentStructure)].type = "string"
                  /\ rows[r][typeIdx(currentStructure)].type = "string"}
      \* a later row of the same name overwrites an earlier one
      lastOf(name) == CHOOSE r \in typed :
                        /\ rows[r][nameKeyIdx(currentStructure)].value = name
                        /\ \A q \in typed : rows[q][nameKeyIdx(currentStructure)].value = name => q <= r
  IN  [name \in {rows[r][nameKeyIdx(currentStructure)].value : r \in typed} |->
         [type |-> rows[lastOf(name)][typeIdx(currentStructure)].value,
          nullable |-> IF nullableIdx(currentStructure) = 0 THEN TRUE
                       ELSE ~isFalse(rows[lastOf(name)][nullableIdx(currentStructure)])]]

changeValue(currentStructure, change) ==
  entries([i \in DOMAIN change |->
    <<change[i][1], convertStringToValue(types(currentStructure), change[i][1], change[i][2])>>])

(* A variant that names the row by the first of its primary columns only *)
where_FirstKeyOnly(columns, row, indexes) ==
  << <<columns[indexes[1]], row[indexes[1]]>> >>

(* The predicate given to constructUpdateQuery: the primary columns and the row's cells *)
where(columns, row, indexes) ==
  entries([i \in DOMAIN indexes |-> <<columns[indexes[i]], row[indexes[i]]>>])

(* produce(currentPage, ...): the cells of the highlighted row in the changed columns *)
patch(currentPage, rowIdx, changed) ==
  LET columns == currentPage.columns
      row == currentPage.rows[rowIdx + 1]
      patched == [c \in DOMAIN row |->
                    IF \E i \in DOMAIN changed : changed[i][1] = columns[c] /\ indexOf(columns, columns[c]) = c
                    THEN changed[CHOOSE i \in DOMAIN changed : changed[i][1] = columns[c]][2]
                    ELSE row[c]]
  IN  [currentPage EXCEPT !.rows[rowIdx + 1] = patched]

(* How a call of onRowEdited ends *)
onRowEditedOutcome(sn, change, autoFreeze) ==
  LET st == sn.st
  IN  IF onRowEditedReturns(st, change) THEN "return"
      ELSE IF onRowEditedLogs(st.currentStructure) THEN "console.error"
      ELSE IF primaryColumnIndexesThrows(st.currentStructure) THEN "TypeError"
      ELSE IF Len(primaryColumnIndexes(st.currentStructure, st.currentPage.columns)) <= 0 THEN "return"
      ELSE IF typesThrows(st.currentStructure) THEN "TypeError"
      ELSE IF executeThrows(sn, autoFreeze) THEN "execute TypeError"
      ELSE "updatePage"

onRowEdited(sn, change, autoFreeze) ==
  LET st == sn.st
      outcome == onRowEditedOutcome(sn, change, autoFreeze)
  IN  IF outcome \notin {"execute TypeError", "updatePage"} THEN sn
      ELSE
        LET currentPage == st.currentPage
            rowIdx == highlightedRowIdx(currentPage)
            executed ==
              execute(sn,
                      constructUpdateQuery(
                        st.selectedDatabaseTable,
                        where(currentPage.columns, currentPage.rows[rowIdx + 1],
                              primaryColumnIndexes(st.currentStructure, currentPage.columns)),
                        changeValue(st.currentStructure, change)),
                      autoFreeze)
        IN  IF outcome = "execute TypeError" THEN executed
            ELSE updatePage(executed, patch(currentPage, rowIdx, changeValue(st.currentStructure, change)))

(* The statements onRowEdited passes to execute: one, or none *)
onRowEditedQuery(sn, change) ==
  LET sent == BagToSet(onRowEdited([sn EXCEPT !.net = EmptyBag], change, FALSE).net)
      statements == {r \in sent : r.method = "execute"}
  IN  IF statements = {} THEN <<>> ELSE <<(CHOOSE r \in statements : TRUE).value>>

(* renderTable: the sidebar of the highlighted row, and whether it has an onSave *)
sidebarShown_AnyHighlighted(page) == Len(page.highlightedRows) >= 1

sidebarShown(page) == Len(page.highlightedRows) = 1

sidebarSaves(currentStructure) ==
  /\ currentStructure /= Null
  /\ isUpdatable(currentStructure.columns, currentStructure.rows)

(* client.onConnect *)
onConnect(sn, stor) ==
  updateFavorites([sn EXCEPT !.net = send(@, <<[method |-> "databaseList"]>>)],
                  JSONparse(getItem(stor)), FALSE)

(* Component's callbacks that do more than pass their argument on *)
onRefreshClicked(sn) ==
  refresh(update(sn, [sn.st EXCEPT !.error = NoValue]))

onFavoritesClicked(sn) ==
  updateFavorites(sn, sn.st.favorites, TRUE)

onDatabaseSelected(sn, selected) ==
  LET found == {i \in DOMAIN sn.st.databases : sn.st.databases[i].name = selected}
      dbId == IF found = {} THEN 0
              ELSE sn.st.databases[CHOOSE i \in found : \A j \in found : i <= j].id
  IN  updateSelectedDatabase(sn, dbId)

tableOptions(st) ==
  IF st.selectedDatabase /= 0 /\ Defined(st.databases, st.selectedDatabase)
  THEN Range(st.databases[st.selectedDatabase].tables)
  ELSE {}

----------------------------------------------------------------------------
(* The continuations of the subscriber's requests *)

getTableDataThen(sn, req, data) ==
  updatePage(sn, [databaseId |-> req.databaseId,
                  table |-> req.table,
                  columns |-> data.columns,
                  rows |-> data.values,
                  start |-> data.start,
                  count |-> data.count,
                  total |-> data.total,
                  highlightedRows |-> <<>>])

getTableStructureThen(sn, req, data) ==
  updateStructure(sn, [databaseId |-> req.databaseId,
                       table |-> req.table,
                       columns |-> data.structureColumns,
                       rows |-> data.structureValues,
                       indexesColumns |-> data.indexesColumns,
                       indexesValues |-> data.indexesValues])

getTableInfoThen(sn, req, data) ==
  updateTableInfo(sn, data.definition)

(* A variant that drops the result shown *)
requestCatch_ClearsResult(sn) ==
  setError(assign(sn, [sn.st EXCEPT !.queryResult = Null]), FreshError(sn.st))

(* A variant that swallows the failure *)
requestCatch_Swallows(sn) == sn

requestCatch(sn) ==
  setError(sn, FreshError(sn.st))

----------------------------------------------------------------------------
(* The state machine *)

Start(requests) ==
  /\ state = InitialState
  /\ net = EmptyBag
  /\ storage \in {NoItem, JSONstringify(<<Sql("A")>>)}
  /\ connected = FALSE
  /\ now = 0
  /\ submitted = <<>>
  /\ frozen = FALSE
  /\ shared = 0
  /\ window = requests
  /\ last = [op |-> "plugin", arg |-> 0]

Init == Start(MaxInFlight)

(* The plugin constructed where the storage holds no favorites *)
InitEmpty == Init /\ storage = NoItem

(* The same, with a remote that holds one request more *)
InitWide == Start(MaxInFlight + 1) /\ storage = NoItem

Here == [st |-> state, net |-> net, frozen |-> frozen, shared |-> shared]
Outstanding(method) == {r \in BagToSet(net) : r.method = method}
Settled(req) == [Here EXCEPT !.net = net (-) SetToBag({req})]

(* What the state held before a handler ran, for the handlers that change the selection *)
Before(st) ==
  [selectedDatabase |-> st.selectedDatabase,
   selectedDatabaseTable |-> st.selectedDatabaseTable,
   page |-> st.currentPage /= Null,
   structure |-> st.currentStructure /= Null,
   sort |-> st.currentSort /= Null,
   pageRowNumber |-> st.pageRowNumber]

Commit(sn, item, texts, op, arg) ==
  /\ BagCardinality(sn.net) <= window
  /\ state' = sn.st
  /\ net' = sn.net
  /\ frozen' = sn.frozen
  /\ shared' = sn.shared
  /\ storage' = item
  /\ submitted' = texts
  /\ last' = [op |-> op, arg |-> arg]
  /\ connected' = TRUE
  /\ UNCHANGED <<now, window>>

Handler(sn, op, arg) == connected /\ Commit(sn, storage, submitted, op, arg)

(* The clock advances between two handlers *)
Tick ==
  /\ now < MaxClock
  /\ now' = now + 1
  /\ last' = [op |-> "tick", arg |-> now + 1]
  /\ UNCHANGED <<state, net, storage, connected, submitted, frozen, shared, window>>

OnConnect ==
  /\ ~connected
  /\ LET r == onConnect(Here, storage)
     IN  Commit(r.sn, r.item, submitted, "onConnect", 0)

DatabaseListResponse(lists) ==
  \E req \in Outstanding("databaseList") : \E databases \in lists :
    Handler(updateDatabases(Settled(req), databases), "databaseList.then",
            [databases |-> databases, before |-> Before(state),
             completed |-> ~updateDatabasesThrows(state, databases)])

DatabaseListFailure ==
  \E req \in Outstanding("databaseList") :
    Handler(Settled(req), "databaseList.rejected", 0)

Key(req) == <<req.databaseId, req.table>>

GetTableDataResponse(totals) ==
  \E req \in Outstanding("getTableData") : \E total \in totals :
    Handler(getTableDataThen(Settled(req), req, PageData(req, total)), "getTableData.then", Key(req))

GetTableDataFailure ==
  \E req \in Outstanding("getTableData") :
    Handler(requestCatch(Settled(req)), "getTableData.catch", Key(req))

GetTableStructureResponse(structures) ==
  \E req \in Outstanding("getTableStructure") : \E data \in structures :
    Handler(getTableStructureThen(Settled(req), req, data), "getTableStructure.then", Key(req))

GetTableStructureFailure ==
  \E req \in Outstanding("getTableStructure") :
    Handler(requestCatch(Settled(req)), "getTableStructure.catch", Key(req))

GetTableInfoResponse ==
  \E req \in Outstanding("getTableInfo") : \E definition \in {Definition(req.table)} :
    Handler(getTableInfoThen(Settled(req), req, [definition |-> definition]), "getTableInfo.then", Key(req))

GetTableInfoFailure ==
  \E req \in Outstanding("getTableInfo") :
    Handler(requestCatch(Settled(req)), "getTableInfo.catch", Key(req))

ExecuteResponse(results) ==
  \E req \in Outstanding("execute") : \E data \in results :
    Handler(executeThen(Settled(req), req, data), "execute.then", data)

ExecuteFailure ==
  \E req \in Outstanding("execute") :
    Handler(requestCatch(Settled(req)), "execute.catch", 0)

OnDatabaseSelected ==
  \E i \in DOMAIN state.databases :
    Handler(onDatabaseSelected(Here, state.databases[i].name), "onDatabaseSelected",
            [selected |-> state.databases[i].name, before |-> Before(state)])

OnDatabaseTableSelected ==
  \E table \in tableOptions(state) :
    Handler(updateSelectedDatabaseTable(Here, table), "updateSelectedDatabaseTable",
            [table |-> table, before |-> Before(state)])

UpdateViewMode(modes) ==
  \E viewMode \in modes :
    Handler(updateViewMode(Here, viewMode), "updateViewMode", viewMode)

NextPage ==
  /\ state.pageRowNumber + PAGE_SIZE <= MaxPageRowNumber
  /\ Handler(nextPage(Here), "nextPage", 0)

PreviousPage ==
  Handler(previousPage(Here), "previousPage", state.pageRowNumber)

GoToRow ==
  \E row \in Rows :
    Handler(goToRow(Here, row), "goToRow", row)

SortByChanged(orders) ==
  \E sortOrder \in orders :
    Handler(sortByChanged(Here, sortOrder), "sortByChanged", sortOrder)

OnRefreshClicked ==
  Handler(onRefreshClicked(Here), "onRefreshClicked", 0)

(* The editor, the star and the Execute button are shown in the SQL tab *)
UpdateQuery(texts) ==
  /\ state.viewMode = "SQL"
  /\ \E value \in texts :
       Handler(updateQuery(Here, value), "updateQuery", value)

OnFavoritesClicked ==
  /\ connected
  /\ state.viewMode = "SQL"
  /\ LET r == onFavoritesClicked(Here)
     IN  Commit(r.sn, r.item, submitted, "onFavoritesClicked", <<state.favorites, storage>>)

(* The Execute button: nothing is called while the buffer is null *)
OnExecuteClicked ==
  /\ connected
  /\ state.viewMode = "SQL"
  /\ state.query /= Null
  /\ Len(submitted) < MaxHistory
  /\ \E autoFreeze \in AutoFreeze :
       Commit(execute(Here, state.query.value, autoFreeze), storage,
              Append(submitted, state.query.value), "onExecuteClicked", state.query.value)

(* The table of the data tab is shown, and the rows are rows of it *)
OnRowHighlighted ==
  /\ state.viewMode = "data"
  /\ state.currentPage /= Null
  /\ \E highlightedRows \in Highlights :
       /\ \A i \in DOMAIN highlightedRows : highlightedRows[i] + 1 \in DOMAIN state.currentPage.rows
       /\ Handler(onRowHighlighted(Here, highlightedRows), "onRowHighlighted", highlightedRows)

(* The table of a query's result is shown in the SQL tab *)
OnQueryRowHighlighted ==
  /\ state.viewMode = "SQL"
  /\ state.queryResult /= Null
  /\ state.queryResult.table /= Null
  /\ \E highlightedRows \in Highlights :
       /\ \A i \in DOMAIN highlightedRows : highlightedRows[i] + 1 \in DOMAIN state.queryResult.table.rows
       /\ Handler(onQueryRowHighlighted(Here, highlightedRows), "queryResult.onRowHighlighted", highlightedRows)

(* The sidebar is shown for one highlighted row, and saves where isUpdatable *)
OnRowEdited ==
  /\ connected
  /\ state.viewMode = "data"
  /\ state.currentPage /= Null
  /\ sidebarShown(state.currentPage)
  /\ sidebarSaves(state.currentStructure)
  /\ Len(submitted) < MaxHistory
  /\ \E change \in Changes : \E autoFreeze \in AutoFreeze :
       Commit(onRowEdited(Here, change, autoFreeze), storage,
              submitted \o onRowEditedQuery(Here, change), "onRowEdited",
              [change |-> change, page |-> state.currentPage,
               outcome |-> onRowEditedOutcome(Here, change, autoFreeze)])

Next ==
  \/ OnConnect
  \/ DatabaseListResponse(DatabaseLists)
  \/ DatabaseListFailure
  \/ GetTableDataResponse(Totals)
  \/ GetTableDataFailure
  \/ GetTableStructureResponse(EditStructures)
  \/ GetTableStructureFailure
  \/ GetTableInfoResponse
  \/ GetTableInfoFailure
  \/ ExecuteResponse(ExecuteResults)
  \/ ExecuteFailure
  \/ OnDatabaseSelected
  \/ OnDatabaseTableSelected
  \/ UpdateViewMode(ViewModes)
  \/ NextPage
  \/ PreviousPage
  \/ GoToRow
  \/ SortByChanged(SortOrders)
  \/ OnRefreshClicked
  \/ UpdateQuery(Texts)
  \/ OnFavoritesClicked
  \/ OnExecuteClicked
  \/ OnRowHighlighted
  \/ OnQueryRowHighlighted
  \/ OnRowEdited
  \/ Tick

Spec == Init /\ [][Next]_vars

(* The fetches: the selection and the view mode change while requests are outstanding *)
NextFetch ==
  \/ OnConnect
  \/ DatabaseListResponse(DatabaseLists)
  \/ GetTableDataResponse(Totals)
  \/ GetTableStructureResponse(Structures)
  \/ GetTableInfoResponse
  \/ OnDatabaseSelected
  \/ OnDatabaseTableSelected
  \/ UpdateViewMode(ViewModes)
  \/ OnRefreshClicked

SpecFetch == InitEmpty /\ [][NextFetch]_vars

(* The selection: changes of database and table, reloads of the database list,
   and the page position and sort order that a change of selection resets *)
NextSelection ==
  \/ OnConnect
  \/ DatabaseListResponse(DatabaseLists)
  \/ GetTableDataResponse(Totals)
  \/ GetTableStructureResponse(Structures)
  \/ OnDatabaseSelected
  \/ OnDatabaseTableSelected
  \/ NextPage
  \/ SortByChanged({[key |-> "id", direction |-> "down"]})
  \/ OnRefreshClicked

SpecSelection == InitEmpty /\ [][NextSelection]_vars

(* The paging: the position in the table moved by the buttons and by goToRow *)
NextPaging ==
  \/ OnConnect
  \/ DatabaseListResponse(DatabaseLists)
  \/ GetTableDataResponse(Totals)
  \/ GetTableStructureResponse(Structures)
  \/ OnDatabaseSelected
  \/ OnDatabaseTableSelected
  \/ NextPage
  \/ PreviousPage
  \/ GoToRow
  \/ SortByChanged({[key |-> "id", direction |-> "down"]})

SpecPaging == InitEmpty /\ [][NextPaging]_vars

(* The queries: the editor, the executions and the row edits of one table *)
NextQuery ==
  \/ OnConnect
  \/ DatabaseListResponse({<<DB(1, "a", <<"T1">>)>>})
  \/ GetTableDataResponse({120})
  \/ GetTableStructureResponse(Structures)
  \/ ExecuteResponse(ExecuteResults)
  \/ ExecuteFailure
  \/ UpdateViewMode({"SQL", "data"})
  \/ UpdateQuery({Sql("A")})
  \/ OnExecuteClicked
  \/ OnRowHighlighted
  \/ OnRowEdited

SpecQuery == InitEmpty /\ [][NextQuery]_vars

(* The failures: the requests of the subscriber rejected, and the refresh after them *)
NextErrors ==
  \/ OnConnect
  \/ DatabaseListResponse({<<DB(1, "a", <<"T1">>), DB(2, "b", <<"T3">>)>>, <<DB(1, "a", <<"T1">>)>>})
  \/ DatabaseListFailure
  \/ GetTableDataResponse({120})
  \/ GetTableDataFailure
  \/ GetTableStructureResponse(Structures)
  \/ GetTableStructureFailure
  \/ GetTableInfoResponse
  \/ GetTableInfoFailure
  \/ OnDatabaseSelected
  \/ UpdateViewMode({"data", "tableInfo"})
  \/ OnRefreshClicked

SpecErrors == InitEmpty /\ [][NextErrors]_vars

(* The results: queries executed from the editor, answered or rejected, and the rows
   of a result highlighted *)
NextResult ==
  \/ OnConnect
  \/ DatabaseListResponse({<<DB(1, "a", <<>>)>>})
  \/ UpdateViewMode({"SQL", "queryHistory"})
  \/ UpdateQuery(Texts)
  \/ OnExecuteClicked
  \/ ExecuteResponse(ExecuteResults)
  \/ ExecuteFailure
  \/ OnQueryRowHighlighted

SpecResult == InitEmpty /\ [][NextResult]_vars

(* The row edits: one table with its page and one of the structures, rows
   highlighted and an edit saved from the sidebar; the UPDATEs stay unanswered *)
NextRowEdit ==
  \/ OnConnect
  \/ DatabaseListResponse({<<DB(1, "a", <<"T1">>)>>})
  \/ GetTableDataResponse({120})
  \/ GetTableStructureResponse(EditStructures)
  \/ OnRowHighlighted
  \/ OnRowEdited

SpecRowEdit == InitEmpty /\ [][NextRowEdit]_vars

(* The patch of a row edit: the edits of the rows of one page while a query is in
   the editor, and the UPDATE answered or rejected *)
NextPatch ==
  \/ OnConnect
  \/ DatabaseListResponse({<<DB(1, "a", <<"T1">>)>>})
  \/ GetTableDataResponse({120})
  \/ GetTableStructureResponse(Structures)
  \/ UpdateViewMode({"SQL", "data"})
  \/ UpdateQuery({Sql("A")})
  \/ OnRowHighlighted
  \/ OnRowEdited
  \/ ExecuteResponse({[type |-> "update_delete", affectedCount |-> 1]})
  \/ ExecuteFailure

SpecPatch == InitEmpty /\ [][NextPatch]_vars

(* The history: queries typed and executed in the SQL tab while the clock runs *)
NextHistory ==
  \/ OnConnect
  \/ DatabaseListResponse({<<DB(1, "a", <<>>)>>})
  \/ UpdateViewMode({"SQL"})
  \/ UpdateQuery(Texts)
  \/ OnExecuteClicked
  \/ ExecuteResponse({[type |-> "update_delete", affectedCount |-> 1]})
  \/ Tick

SpecHistory == InitEmpty /\ [][NextHistory]_vars

(* The page requests: the pages of the tables asked for, answered or rejected, as
   the position, the sort order and the view mode change *)
NextRequests ==
  \/ OnConnect
  \/ DatabaseListResponse({<<DB(1, "a", <<"T1", "T2">>)>>})
  \/ GetTableDataResponse({120})
  \/ GetTableDataFailure
  \/ GetTableStructureResponse(Structures)
  \/ OnDatabaseTableSelected
  \/ UpdateViewMode({"data", "structure"})
  \/ NextPage
  \/ SortByChanged(SortOrders)
  \/ OnRefreshClicked

SpecRequests == InitEmpty /\ [][NextRequests]_vars

(* The failing remote: after the connect the list and the structure are answered and
   every page request is rejected; the user goes on to the next page at most once.
   Every request in flight is settled in the end. *)
NextFailing ==
  \/ OnConnect
  \/ DatabaseListResponse({<<DB(1, "a", <<"T1">>)>>, <<DB(1, "a", <<"T1", "T2">>)>>})
  \/ GetTableStructureResponse(EditStructures)
  \/ GetTableDataFailure
  \/ NextPage
  \/ Tick

SpecFailing ==
  /\ InitEmpty
  /\ [][NextFailing]_vars
  /\ WF_vars(DatabaseListResponse({<<DB(1, "a", <<"T1">>)>>, <<DB(1, "a", <<"T1", "T2">>)>>}))
  /\ WF_vars(GetTableStructureResponse(EditStructures))
  /\ WF_vars(GetTableDataFailure)

(* The answering remote: every request is answered in the end, and the user acts in
   the data tab *)
NextSettling ==
  \/ OnConnect
  \/ DatabaseListResponse({<<DB(1, "a", <<"T1", "T2">>), DB(2, "b", <<"T3">>)>>})
  \/ GetTableDataResponse({120})
  \/ GetTableStructureResponse(Structures)
  \/ OnDatabaseSelected
  \/ OnDatabaseTableSelected
  \/ NextPage
  \/ SortByChanged({[key |-> "id", direction |-> "down"]})
  \/ OnRefreshClicked

SpecSettling ==
  /\ InitWide
  /\ [][NextSettling]_vars
  /\ WF_vars(DatabaseListResponse({<<DB(1, "a", <<"T1", "T2">>), DB(2, "b", <<"T3">>)>>}))
  /\ WF_vars(GetTableDataResponse({120}))
  /\ WF_vars(GetTableStructureResponse(Structures))

(* The table info: the tables of one database selected and the tab switched, with a
   remote that answers every request in the end *)
NextInfo ==
  \/ OnConnect
  \/ DatabaseListResponse({<<DB(1, "a", <<"T1", "T2">>)>>})
  \/ GetTableDataResponse({120})
  \/ GetTableStructureResponse(Structures)
  \/ GetTableInfoResponse
  \/ OnDatabaseTableSelected
  \/ UpdateViewMode({"data", "tableInfo"})

SpecInfo ==
  /\ InitEmpty
  /\ [][NextInfo]_vars
  /\ WF_vars(DatabaseListResponse({<<DB(1, "a", <<"T1", "T2">>)>>}))
  /\ WF_vars(GetTableDataResponse({120}))
  /\ WF_vars(GetTableStructureResponse(Structures))
  /\ WF_vars(GetTableInfoResponse)

(* The favorites: the editor and the star button, from either stored list *)
NextFavorites ==
  \/ OnConnect
  \/ DatabaseListResponse({<<DB(1, "a", <<"T1">>)>>})
  \/ UpdateViewMode(ViewModes)
  \/ UpdateQuery(Texts)
  \/ OnFavoritesClicked

SpecFavorites == Init /\ [][NextFavorites]_vars

----------------------------------------------------------------------------
(* The claims *)

Selection(st) == <<st.selectedDatabase, st.selectedDatabaseTable>>
PageKey(page) == <<page.databaseId, page.table>>
SelectionOps == {"onDatabaseSelected", "updateSelectedDatabaseTable", "databaseList.then"}

(* C1: a getTableData response that arrives after the selection has changed does not
   populate currentPage: once the response is handled, currentPage is not a page of
   another (databaseId, table) than the selected one. *)
C1_LatePageResponseDiscarded ==
  (last.op = "getTableData.then" /\ state.currentPage /= Null)
    => PageKey(state.currentPage) = Selection(state)

(* C2: in every reachable state a non-null currentStructure belongs to the selected
   database and table. *)
C2_StructureOfSelection ==
  state.currentStructure /= Null
    => PageKey(state.currentStructure) = Selection(state)

(* C3: a step of updateSelectedDatabase, updateSelectedDatabaseTable or updateDatabases
   that changes selectedDatabase or selectedDatabaseTable leaves pageRowNumber = 0,
   currentPage = null and currentStructure = null, and currentSort = null when
   selectedDatabase changed. *)
C3_SelectionChangeResets ==
  [][(last'.op \in SelectionOps /\ Selection(state') /= Selection(state))
       => /\ state'.pageRowNumber = 0
          /\ state'.currentPage = Null
          /\ state'.currentStructure = Null
          /\ (state'.selectedDatabase /= state.selectedDatabase => state'.currentSort = Null)]_vars

(* C3, witnesses: each of the three handlers has changed the selection of a state that
   held a page, a structure and a sort order. *)
C3_Changed(op) ==
  /\ last.op = op
  /\ Selection(state) /= <<last.arg.before.selectedDatabase, last.arg.before.selectedDatabaseTable>>
  /\ last.arg.before.page /\ last.arg.before.structure /\ last.arg.before.sort

C3_Witness ==
  /\ last.op = "databaseList.then"
  /\ C3_Changed("databaseList.then")
  /\ last.arg.before.selectedDatabaseTable = "T1"
  /\ state.selectedDatabaseTable = "T2"
  /\ state.currentPage = Null

(* C4: when updateDatabases completes, selectedDatabaseTable is one of the tables of
   the entry whose id is selectedDatabase, or null (undefined) where that entry has no
   tables; for any list of distinct ids. *)
C4_SelectedTableOfSelectedDatabase ==
  (last.op = "databaseList.then" /\ last.arg.completed)
    => \A i \in DOMAIN state.databases :
         state.databases[i].id = state.selectedDatabase
           => IF state.databases[i].tables = <<>>
              THEN ~Truthy(state.selectedDatabaseTable)
              ELSE includes(state.databases[i].tables, state.selectedDatabaseTable)

(* C5: while the request for a stale resource is outstanding, a step that leaves the
   resource stale and what is asked of it unchanged (a response for another resource,
   a view mode switch) sends no second request for it. *)
C5_Stale(st, method) ==
  /\ st.selectedDatabase /= 0
  /\ Truthy(st.selectedDatabaseTable)
  /\ IF method = "getTableData" THEN st.viewMode = "data" /\ st.currentPage = Null
     ELSE IF method = "getTableStructure" THEN st.currentStructure = Null
     ELSE st.viewMode = "tableInfo" /\ st.currentStructure = Null

C5_Request(st, method) ==
  IF method = "getTableData" THEN GetTableData(st) ELSE TableRequest(method, st)

C5_AtMostOneRequestPerStaleResource ==
  [][\A method \in {"getTableData", "getTableStructure", "getTableInfo"} :
       ( /\ C5_Stale(state, method)
         /\ C5_Stale(state', method)
         /\ C5_Request(state', method) = C5_Request(state, method)
         /\ BagIn(C5_Request(state, method), net)
         /\ last'.op /= "onRefreshClicked" )
       => CopiesIn(C5_Request(state, method), net') <= CopiesIn(C5_Request(state, method), net)]_vars

(* C6: queryHistory holds the texts passed to execute, one entry a call, in order. *)
C6_HistoryIsSubmissions ==
  [i \in DOMAIN state.queryHistory |-> state.queryHistory[i].value] = submitted

(* C7: two clicks on the favorites button in a row, with a query in the buffer and
   starting from no favorites (in the store and in the storage), leave no favorites in
   the store and in the storage. *)
C7_ToggleTwiceFromEmpty ==
  [][( /\ last.op = "onFavoritesClicked"
       /\ last.arg[1] = <<>>
       /\ JSONparse(getItem(last.arg[2])) = <<>>
       /\ state.query /= Null
       /\ last'.op = "onFavoritesClicked" )
     => /\ state'.favorites = <<>>
        /\ JSONparse(getItem(storage')) = <<>>]_vars

(* C8: after updateFavorites with a query in the buffer the store's favorites are the
   list written to the storage, which is the favorites before with the query's value
   removed where it was present and appended where it was not; and the favorites read
   from the storage on connect are the store's favorites. *)
C8_Toggled(before, value) ==
  IF includes(before, value) THEN splice(before, indexOf(before, value)) ELSE Append(before, value)

C8_FavoritesStoredAndWritten ==
  /\ (last.op = "onFavoritesClicked" /\ state.query /= Null)
       => /\ state.favorites = JSONparse(getItem(storage))
          /\ JSONparse(getItem(storage)) = C8_Toggled(last.arg[1], state.query.value)
  /\ last.op = "onConnect" => state.favorites = JSONparse(getItem(storage))

(* C9: goToRow(row) with a page loaded sets pageRowNumber to row clamped into
   [0, max(total - 50, 0)] and currentPage to null; with no page loaded it changes
   nothing. *)
C9_Clamp(row, lo, hi) == IF row < lo THEN lo ELSE IF row > hi THEN hi ELSE row

C9_GoToRowClamps ==
  [][last'.op = "goToRow"
       => IF state.currentPage = Null
          THEN state' = state /\ net' = net
          ELSE /\ state'.pageRowNumber =
                    C9_Clamp(last'.arg, 0, Max(state.currentPage.total - 50, 0))
               /\ state'.currentPage = Null]_vars

(* C9, witness: goToRow(1000) has run on a page of 120 rows. *)
C9_Witness ==
  /\ last.op = "goToRow"
  /\ last.arg = 1000
  /\ state.pageRowNumber = 70
  /\ state.currentPage = Null

C11_RefreshIssuesDatabaseList ==
  [][last'.op = "onRefreshClicked" => BagIn([method |-> "databaseList"], net')]_vars

(* C12: a remote call that succeeds (getTableData, getTableStructure, getTableInfo,
   databaseList, execute) and every updateViewMode leave error = null. *)
C12_SuccessClearsError ==
  ( \/ last.op \in {"getTableData.then", "getTableStructure.then", "getTableInfo.then",
                     "execute.then", "updateViewMode"}
    \/ (last.op = "databaseList.then" /\ last.arg.completed) )
    => state.error = NoValue

(* C13: when an execute request fails, error is the failure and queryResult is as it
   was; when it succeeds, error is null and queryResult is the result of the kind
   reported (select, insert, update_delete). *)
C13_ExecuteOutcome ==
  [][ /\ last'.op = "execute.catch"
         => /\ state'.error = FreshError(state)
            /\ state'.queryResult = state.queryResult
      /\ last'.op = "execute.then"
         => /\ state'.error = NoValue
            /\ state'.queryResult =
                 IF last'.arg.type = "select"
                 THEN [table |-> [columns |-> last'.arg.columns, rows |-> last'.arg.values,
                                  highlightedRows |-> <<>>],
                       id |-> Null, count |-> Null]
                 ELSE IF last'.arg.type = "insert"
                 THEN [table |-> Null, id |-> Num(last'.arg.insertedId), count |-> Null]
                 ELSE [table |-> Null, id |-> Null, count |-> Num(last'.arg.affectedCount)] ]_vars

(* C13, witness: an execute has failed while the result of an earlier one was shown. *)
C13_Witness ==
  /\ last.op = "execute.catch"
  /\ state.error /= NoValue
  /\ state.queryResult /= Null

(* C14: where queryResult is non-null, exactly one of its table, id and count is
   non-null. *)
C14_OneOfThree ==
  state.queryResult /= Null
    => Cardinality({f \in {"table", "id", "count"} : state.queryResult[f] /= Null}) = 1

(* C14, witness: the row of a select's result has been highlighted. *)
C14_Witness ==
  /\ last.op = "queryResult.onRowHighlighted"
  /\ state.queryResult.table.highlightedRows = <<0>>
  /\ state.queryResult.id = Null
  /\ state.queryResult.count = Null

(* C15: a row edit made while one of the columns primary_key, column_name, data_type
   is missing from currentStructure.columns emits no statement, leaves the state as it
   was, and ends without an exception. *)
C15_Missing(st) ==
  \E name \in {"primary_key", "column_name", "data_type"} :
    ~includes(st.currentStructure.columns, name)

C15_MissingMetadataAborts ==
  [][(last'.op = "onRowEdited" /\ C15_Missing(state) /\ last'.arg.change /= <<>>)
       => /\ submitted' = submitted
          /\ state' = state
          /\ net' = net
          /\ last'.arg.outcome \in {"return", "console.error"}]_vars

(* C16: every execute request a row edit emits carries a predicate that is not
   empty, that names exactly the primary-key columns of the structure that are
   columns of the page, and that binds each to the cell the highlighted row holds in
   currentPage before the edit; with no such column the edit emits no statement *)
C16_Keys(st) ==
  LET structure == st.currentStructure
      pk == indexOf(structure.columns, "primary_key")
      nm == indexOf(structure.columns, "column_name")
  IN  IF pk = 0 \/ nm = 0 THEN {}
      ELSE {structure.rows[r][nm].value :
              r \in {q \in DOMAIN structure.rows : structure.rows[q][pk] = Val("boolean", TRUE)}}

C16_Expected(st) ==
  LET page == st.currentPage
      at == page.highlightedRows[1] + 1
  IN  IF at \notin DOMAIN page.rows THEN {}
      ELSE {<<c, page.rows[at][CHOOSE i \in DOMAIN page.columns : page.columns[i] = c]>> :
              c \in C16_Keys(st) \cap Range(page.columns)}

C16_Emitted == {r \in BagToSet(net' (-) net) : r.method = "execute"}

C16_PredicateIsPrimaryKeyBeforeEdit ==
  [][last'.op = "onRowEdited" =>
       /\ \A r \in C16_Emitted :
            /\ Len(r.value.where) > 0
            /\ Len(r.value.where) = Cardinality(C16_Expected(state))
            /\ Range(r.value.where) = C16_Expected(state)
       /\ C16_Expected(state) = {} => (C16_Emitted = {} /\ submitted' = submitted)]_vars

C16_Witness ==
  /\ last.op = "onRowEdited"
  /\ last.arg.outcome = "updatePage"
  /\ \E r \in BagToSet(net) :
       /\ r.method = "execute"
       /\ r.value.where = << <<"id", Val("integer", 1)>>, <<"name", Val("string", "n")>> >>
       /\ \E i \in DOMAIN r.value.set : r.value.set[i] = <<"id", Val("integer", 9)>>

(* C17: a row edit that emits its UPDATE patches currentPage in the same step, before
   any answer: the cells of the highlighted row in the edited columns take the new
   values, and every other row, every other cell of that row, and the page's
   columns, start, count, total and highlightedRows are as before *)
C17_Emitted == {r \in BagToSet(net' (-) net) : r.method = "execute"}

C17_Patched(before, after, statement) ==
  LET at == before.highlightedRows[1] + 1
      edited == {statement.set[i][1] : i \in DOMAIN statement.set}
      valueOf(name) == statement.set[CHOOSE i \in DOMAIN statement.set : statement.set[i][1] = name][2]
  IN  /\ after /= Null
      /\ [after EXCEPT !.rows = before.rows] = before
      /\ DOMAIN after.rows = DOMAIN before.rows
      /\ \A r \in DOMAIN before.rows : r /= at => after.rows[r] = before.rows[r]
      /\ DOMAIN after.rows[at] = DOMAIN before.rows[at]
      /\ \A c \in DOMAIN before.rows[at] :
           after.rows[at][c] = IF before.columns[c] \in edited THEN valueOf(before.columns[c])
                               ELSE before.rows[at][c]

C18_Preconditions(st, change) ==
  /\ st.currentPage /= Null
  /\ Len(st.currentPage.highlightedRows) = 1
  /\ st.currentStructure /= Null
  /\ change /= <<>>

C19_UpdateViewModeFrame ==
  [][last'.op = "updateViewMode" =>
       /\ state'.viewMode = last'.arg
       /\ state'.error = NoValue
       /\ [state' EXCEPT !.viewMode = state.viewMode, !.error = state.error] = state]_vars

C19_Witness ==
  /\ last.op = "updateViewMode"
  /\ state.viewMode = "tableInfo"
  /\ state.currentPage /= Null
  /\ state.currentStructure /= Null
  /\ state.selectedDatabaseTable = "T1"

(* C20: a manual refresh does not null currentStructure: refresh sets
   outdatedDatabaseList and nulls currentPage, and the structure loaded before it is
   still in currentStructure when the reload of the database list it triggers has
   completed with the selected database and table unchanged *)
C20_RefreshKeepsStructure ==
  [][ /\ last'.op = "onRefreshClicked" =>
           /\ state'.outdatedDatabaseList
           /\ state'.currentPage = Null
           /\ state'.currentStructure = state.currentStructure
      /\ ( /\ last'.op = "databaseList.then"
           /\ last'.arg.completed
           /\ state.currentStructure /= Null
           /\ Selection(state') = Selection(state) )
           => state'.currentStructure = state.currentStructure ]_vars

(* C21: every entry of queryHistory is a copy stamped when it was submitted: no step
   changes the value or the time of an entry that is already in the history, and a
   submission that appends to the history leaves the query buffer of the store as it
   was *)
C21_HistoryEntriesAreCopies ==
  [][ /\ \A i \in DOMAIN state.queryHistory :
           i \in DOMAIN state'.queryHistory /\ state'.queryHistory[i] = state.queryHistory[i]
      /\ Len(state'.queryHistory) > Len(state.queryHistory) => state'.query = state.query ]_vars

(* C22: a getTableData request is issued only in a state where viewMode is data,
   currentPage is null and a database and a table are selected, and it carries
   count 50, the selected database and table, start = pageRowNumber, order = the key
   of the sort (absent without a sort) and reverse = true exactly when the direction
   of the sort is down *)
C22_Qualifies(st) ==
  /\ st.viewMode = "data"
  /\ st.currentPage = Null
  /\ st.selectedDatabase /= 0
  /\ st.selectedDatabaseTable \notin {NoValue, Undefined}

C22_Carries(r, st) ==
  /\ r.count = 50
  /\ r.databaseId = st.selectedDatabase
  /\ r.table = st.selectedDatabaseTable
  /\ r.start = st.pageRowNumber
  /\ r.order = (IF st.currentSort = Null THEN Undefined ELSE st.currentSort.key)
  /\ r.reverse = (st.currentSort /= Null /\ st.currentSort.direction = "down")

C22_Issued ==
  {r \in BagToSet(net' (-) net) \cup (IF state' = state THEN {} ELSE Range(subscribe(state', state))) :
     r.method = "getTableData"}

C22_PageRequestOfState ==
  [][\A r \in C22_Issued : C22_Qualifies(state') /\ C22_Carries(r, state')]_vars

C22_Witness ==
  /\ last.op = "nextPage"
  /\ state.currentSort /= Null
  /\ state.currentSort.direction = "down"
  /\ BagIn([method |-> "getTableData", count |-> 50, databaseId |-> 1, order |-> "id",
            reverse |-> TRUE, table |-> "T1", start |-> 50], net)

(* C23: when a getTableData request fails, error is set to the failure and
   currentPage is left as it was (null while the page was awaited), and the page is
   requested again on the next change of the state after which viewMode is data,
   currentPage is null and a database and a table are selected: the change that
   sets the error is such a change *)
C23_Retried(st, n) ==
  (st.viewMode = "data" /\ st.currentPage = Null /\ st.selectedDatabase /= 0
     /\ st.selectedDatabaseTable \notin {NoValue, Undefined})
    => \E r \in BagToSet(n) :
         /\ r.method = "getTableData"
         /\ <<r.databaseId, r.table, r.start>> =
              <<st.selectedDatabase, st.selectedDatabaseTable, st.pageRowNumber>>

C23_FailedPageFetch ==
  [][ /\ last'.op = "getTableData.catch" =>
           /\ state'.error = FreshError(state)
           /\ state'.error /= NoValue
           /\ state'.currentPage = state.currentPage
           /\ C23_Retried(state', net')
      /\ state' /= state => C23_Retried(state', net') ]_vars

C23_Witness ==
  /\ last.op = "getTableData.catch"
  /\ state.error /= NoValue
  /\ state.currentPage = Null
  /\ state.viewMode = "data"
  /\ \E r \in BagToSet(net) : r.method = "getTableData" /\ r.table = state.selectedDatabaseTable

(* C24: the subscriber sends a databaseList request on exactly the changes of the
   state that take outdatedDatabaseList from false to true; a successful response is
   given to updateDatabases, and outdatedDatabaseList is false after it *)
C24_Sent == {r \in BagToSet(net' (-) net) : r.method = "databaseList"}

C24_DatabaseListOnEdge ==
  [][ /\ last'.op /= "onConnect" =>
           (C24_Sent /= {} <=> (~state.outdatedDatabaseList /\ state'.outdatedDatabaseList))
      /\ last'.op = "databaseList.then" => ~state'.outdatedDatabaseList ]_vars

(* C25: a change of the state sends a getTableInfo request exactly when the new state
   has viewMode tableInfo, a null currentStructure and a database and a table
   selected; its answer sets tableInfo to the definition returned and its failure
   sets error.  So switching to tableInfo with the structure loaded sends none. *)
C25_Qualifies(st) ==
  /\ st.viewMode = "tableInfo"
  /\ st.currentStructure = Null
  /\ st.selectedDatabase /= 0
  /\ st.selectedDatabaseTable \notin {NoValue, Undefined}

C25_InFlight(n) ==
  BagCardinality([r \in {x \in BagToSet(n) : x.method = "getTableInfo"} |-> CopiesIn(r, n)])

C25_Sent ==
  C25_InFlight(net') - C25_InFlight(net)
    + (IF last'.op \in {"getTableInfo.then", "getTableInfo.catch"} THEN 1 ELSE 0)

C25_TableInfoRequest ==
  [][ /\ C25_Sent > 0 => C25_Qualifies(state')
      /\ (state' /= state /\ C25_Qualifies(state')) => C25_Sent > 0
      /\ C25_Sent > 0 => BagIn([method |-> "getTableInfo",
                                databaseId |-> state'.selectedDatabase,
                                table |-> state'.selectedDatabaseTable], net')
      /\ last'.op = "getTableInfo.then" => state'.tableInfo = Definition(last'.arg[2])
      /\ last'.op = "getTableInfo.catch" => state'.error = FreshError(state) ]_vars

C25_Witness ==
  /\ last.op = "updateViewMode"
  /\ state.viewMode = "tableInfo"
  /\ state.currentStructure /= Null
  /\ state.selectedDatabaseTable = "T1"
  /\ C25_InFlight(net) = 0

(* C26: updateDatabases keeps currentPage and currentSort when the selected database
   and table after the call are those before it and sets both to null otherwise; in
   every case it stores the list sorted by ascending id and sets
   outdatedDatabaseList to false *)
C26_Ascending(databases) ==
  \A i, j \in DOMAIN databases : i < j => databases[i].id <= databases[j].id

C26_UpdateDatabasesFrame ==
  [][last'.op = "databaseList.then" =>
       /\ IF Selection(state') = Selection(state)
          THEN state'.currentPage = state.currentPage /\ state'.currentSort = state.currentSort
          ELSE state'.currentPage = Null /\ state'.currentSort = Null
       /\ Len(state'.databases) = Len(last'.arg.databases)
       /\ Range(state'.databases) = Range(last'.arg.databases)
       /\ C26_Ascending(state'.databases)
       /\ ~state'.outdatedDatabaseList]_vars

(* C27: with a remote that answers every getTableData request with the start it was
   asked for, a non-null currentPage starts at pageRowNumber in every reachable
   state *)
C27_PageStartsAtPageRowNumber ==
  state.currentPage /= Null => state.currentPage.start = state.pageRowNumber

(* C28: the system comes to rest without user input: with a remote that rejects the
   requests, after a user action only finitely many requests are sent and a state
   with no request in flight is reached *)
C28_Quiesces == connected ~> (net = EmptyBag)

(* C29: with a remote that answers every request and a list whose first database has
   a table: after the connect, once the user has stopped acting in the data tab, the
   system reaches and stays in a state where currentPage and currentStructure are
   both loaded and both are of the selected database and table *)
C29_UserOps ==
  {"plugin", "onDatabaseSelected", "updateSelectedDatabaseTable", "nextPage", "sortByChanged",
   "onRefreshClicked"}

C29_Loaded ==
  /\ state.currentPage /= Null
  /\ state.currentStructure /= Null
  /\ PageKey(state.currentPage) = Selection(state)
  /\ PageKey(state.currentStructure) = Selection(state)

C29_EventuallyLoaded == <>[](last.op \notin C29_UserOps) => <>[]C29_Loaded

(* C30: with a remote that answers every request: once the user has stopped acting,
   whenever viewMode is tableInfo and a database and a table are selected, tableInfo
   comes to hold, and goes on holding, the definition returned for the selected
   table *)
C30_UserOps == {"plugin", "updateSelectedDatabaseTable", "updateViewMode"}

C30_Shown ==
  (state.viewMode = "tableInfo" /\ state.selectedDatabase /= 0
     /\ state.selectedDatabaseTable \notin {NoValue, Undefined})
    => state.tableInfo = Definition(state.selectedDatabaseTable)

C30_TableInfoOfSelection == <>[](last.op \notin C30_UserOps) => <>[]C30_Shown

====
